---- MODULE Spec2Model ----
(***************************************************************************)
(* Preload and playback-buffer management of the slideshow viewer:         *)
(* the navigation controller (controls module), the preload caches and    *)
(* the buffer monitor (ui module), the URL resolution cache (media         *)
(* module) and the feed loading of the app module.                         *)
(*                                                                         *)
(* Slide positions are 0-based as in the code; a TLA+ sequence s holds     *)
(* the slide of position p at s[p + 1].                                    *)
(***************************************************************************)
EXTENDS Bags, FiniteSets, Integers, Sequences, TLC

\* ------------------------------------------------------------------------
\* Bounds of the exploration
\* ------------------------------------------------------------------------

\* loadSubreddit calls in one behaviour
MaxLoads == 2

\* navigations whose delayed preload step (setTimeout) is still pending
MaxPending == 2

\* network resolutions of external ids outstanding at any time
MaxResolutions == 2

\* navigations of one burst (key repeat) whose delayed preload step is
\* still pending
MaxBurst == 5

\* searches that handleInput starts
MaxSearches == 3

\* autoplay intervals that are live at the same time
MaxAutoplayTimers == 2

\* the largest retry count given to fetchWithRetry
MaxRetries == 4

\* media times of getBufferHealth run over 0..MaxTime (seconds)
MaxTime == 4

\* buffered ranges of a video element
MaxRanges == 2

\* ------------------------------------------------------------------------
\* Configuration (CONFIG.preloading, CONFIG.slideshow)
\* ------------------------------------------------------------------------

MAX_CACHED_VIDEOS == 3

CLEANUP_THRESHOLD == 2

VIDEO_PRELOAD_COUNT == 2

URL_PRELOAD_COUNT == 2

MIN_BUFFER_SECONDS == 4

HEALTHY_BUFFER_SECONDS == 8

PRELOAD_COUNT == 5

DEFAULT_AUTOPLAY_SPEED == 3000

PRELOAD_THRESHOLD == 15

\* ------------------------------------------------------------------------
\* The remote feed (external collaborator): what fetchPosts followed by
\* extractMediaFromPosts yields for a feed subject and a pagination token
\* ------------------------------------------------------------------------

NULL == "null"

\* the feed subjects the user loads
Feeds == {"a", "b", "c"}

Img(u) == [type |-> "image", url |-> u, externalVideoId |-> NULL]

Vid(u) == [type |-> "video", url |-> u, externalVideoId |-> NULL]

\* extractExternalVideoMedia: url null, needsResolve true
Ext(id) == [type |-> "video", url |-> NULL, externalVideoId |-> id]

\* the slides of one page and the token of the page after it
FeedPage(feed, token) ==
    CASE feed = "a" /\ token = NULL ->
           [slides |-> <<Img("a0"), Vid("a1"), Vid("a2")>>, after |-> "t1"]
      [] feed = "a" /\ token # NULL ->
           [slides |-> <<Img("a3")>>, after |-> NULL]
      [] feed = "b" /\ token = NULL ->
           [slides |-> <<Img("b0"), Vid("b1"), Ext("x2"), Vid("b3")>>, after |-> "t1"]
      [] feed = "b" /\ token # NULL ->
           [slides |-> <<Vid("b4")>>, after |-> NULL]
      [] OTHER ->
           [slides |-> <<Img("c0"), Img("c1"), Vid("c2"), Img("c3"), Img("c4")>>,
            after |-> NULL]

Tokens == {NULL, "t1"}

\* the URL the provider API returns for an external id
ResolvedUrl(id) == IF id = "x2" THEN "r2" ELSE "r0"

\* buffered-ahead seconds a sampling tick can observe
HealthSamples == {3, 4, 6, 8, 9}

\* a sample above the high-water mark of checkBuffer
HealthyHealth == HEALTHY_BUFFER_SECONDS + 1

\* ------------------------------------------------------------------------
\* State
\* ------------------------------------------------------------------------

VARIABLES
    slides,               \* store.slides: sequence of slide objects
    currentIndex,         \* store.currentIndex
    subreddit,            \* store.subreddit
    after,                \* store.after
    loading,              \* store.loading
    slideUrl,             \* slide objects mutated in place: object -> url (needsResolve cleared)
    preloadedImages,      \* store.preloadedImages: set of image urls
    preloadedVideos,      \* store.preloadedVideos: position -> handle
    preloadedVideoUrls,   \* store.preloadedVideoUrls: external id -> url
    preloadingInProgress, \* store.preloadingInProgress: set of external ids
    preloadingPaused,     \* store.preloadingPaused
    bufferMonitorInterval,\* ui module variable: id of the interval, 0 for null
    liveIntervals,        \* interval timers of checkBuffer that are not cleared
    timers,               \* pending 100 ms timeouts, in firing order
    resolutions,          \* bag of outstanding fetchExternalVideoUrl calls
    fetches,              \* bag of outstanding fetchPosts calls
    nload,                \* number of loadSubreddit calls so far
    npage,                \* number of pages extractMediaFromPosts has turned into slides
    dom,                  \* the slides rendered in the slideshow container
    destroyed,            \* the handles cleanupOldPreloads has destroyed
    imageRequests,        \* bag of the image urls requested since the last clear
    video,                \* getBufferHealth: the video element it is given
    health,               \* getBufferHealth: the value it returned, -1 before a call
    autoplay,             \* store.autoplay
    autoplayInterval,     \* store.autoplayInterval: id of the interval, 0 for null
    autoplaySpeed,        \* store.autoplaySpeed
    liveAutoplay,         \* interval timers of startAutoplay that are not cleared
    retry,                \* fetchWithRetry: the locals and the position of one call
    input,                \* autocomplete: elements.input.value
    autocomplete,         \* autocomplete: state and the contents of the dropdown
    debouncePending,      \* autocomplete: the timeout of debounce is pending
    searches,             \* autocomplete: the handleInput calls that reached the await
    proxy                 \* proxy worker: one request and the response to it

\* the autoplay fields of the store and the intervals of startAutoplay
autoplayVars == <<autoplay, autoplayInterval, autoplaySpeed, liveAutoplay>>

\* the autocomplete module
autocompleteVars == <<input, autocomplete, debouncePending, searches>>

\* the modules that share no state with the slideshow
otherVars == <<retry, autocompleteVars, proxy>>

vars == <<slides, currentIndex, subreddit, after, loading, slideUrl,
          preloadedImages, preloadedVideos, preloadedVideoUrls,
          preloadingInProgress, preloadingPaused, bufferMonitorInterval,
          liveIntervals, timers, resolutions, fetches, nload, npage, dom, destroyed,
          imageRequests, video, health, autoplayVars, otherVars>>

\* ------------------------------------------------------------------------
\* Slide objects
\* ------------------------------------------------------------------------

\* the objects extractMediaFromPosts creates for the f-th page it is given
NewSlides(f, feed, token) ==
    [k \in 1..Len(FeedPage(feed, token).slides) |->
        [f |-> f, feed |-> feed, token |-> token, k |-> k]]

Template(o) == FeedPage(o.feed, o.token).slides[o.k]

SlideType(o) == Template(o).type

ExternalId(o) == Template(o).externalVideoId

\* data.needsResolve
NeedsResolve(o, su) == ExternalId(o) # NULL /\ o \notin DOMAIN su

\* data.url
SlideDataUrl(o, su) == IF o \in DOMAIN su THEN su[o] ELSE Template(o).url

\* slides[p] of the code, p 0-based
At(sl, p) == sl[p + 1]

Min(a, b) == IF a < b THEN a ELSE b

\* f with key k set to v (Map.set)
MapSet(f, k, v) == [x \in DOMAIN f \cup {k} |-> IF x = k THEN v ELSE f[x]]

\* f without key k (Map.delete)
MapDelete(f, k) == [x \in DOMAIN f \ {k} |-> f[x]]

EmptyMap == [x \in {} |-> NULL]

\* ------------------------------------------------------------------------
\* ui module: preloaded-video cache
\* ------------------------------------------------------------------------

\* a cached handle: the off-screen video element, its url, whether it plays
Handle(url, playing) == [url |-> url, playing |-> playing]

\* preloadVideoElement that replaces the entry of an occupied position
PreloadVideoElement_Overwrites(pv, paused, cur, slideIndex, videoUrl) ==
    IF Cardinality(DOMAIN pv \ {slideIndex}) >= MAX_CACHED_VIDEOS THEN pv
    ELSE IF paused THEN pv
    ELSE MapSet(pv, slideIndex, [url |-> videoUrl, playing |-> slideIndex = cur + 1])

\* preloadVideoElement without the capacity check
PreloadVideoElement_NoCapacity(pv, paused, cur, slideIndex, videoUrl) ==
    IF slideIndex \in DOMAIN pv THEN pv
    ELSE IF paused THEN pv
    ELSE MapSet(pv, slideIndex, [url |-> videoUrl, playing |-> slideIndex = cur + 1])

\* preloadVideoElement without the check of the pause flag
PreloadVideoElement_IgnoresPause(pv, paused, cur, slideIndex, videoUrl) ==
    IF slideIndex \in DOMAIN pv THEN pv
    ELSE IF Cardinality(DOMAIN pv) >= MAX_CACHED_VIDEOS THEN pv
    ELSE MapSet(pv, slideIndex, [url |-> videoUrl, playing |-> slideIndex = cur + 1])

\* preloadVideoElement that nudges every element it admits
PreloadVideoElement_NudgesAll(pv, paused, cur, slideIndex, videoUrl) ==
    IF slideIndex \in DOMAIN pv THEN pv
    ELSE IF Cardinality(DOMAIN pv) >= MAX_CACHED_VIDEOS THEN pv
    ELSE IF paused THEN pv
    ELSE MapSet(pv, slideIndex, [url |-> videoUrl, playing |-> TRUE])

\* preloadVideoElement(slideData, slideIndex, videoUrl); cur is
\* store.currentIndex at the time of the call
PreloadVideoElement(pv, paused, cur, slideIndex, videoUrl) ==
    IF slideIndex \in DOMAIN pv THEN pv
    ELSE IF Cardinality(DOMAIN pv) >= MAX_CACHED_VIDEOS THEN pv
    ELSE IF paused THEN pv
    ELSE MapSet(pv, slideIndex, Handle(videoUrl, slideIndex = cur + 1))

\* the error listener that preloadVideoElement installs: the cache it leaves
PreloadErrorListener_KeepsEntry(pv, slideIndex) == pv

PreloadErrorListener(pv, slideIndex) == MapDelete(pv, slideIndex)

\* getPreloadedVideo that hands the element out and keeps tracking it
TakePreloaded_KeepsEntry(pv, slideIndex) == pv

\* getPreloadedVideo(slideIndex): the cache after the take
TakePreloaded(pv, slideIndex) == MapDelete(pv, slideIndex)

\* cleanupOldPreloads that also destroys what is far ahead
EvictedBy_BothSides(pv, cur) ==
    {p \in DOMAIN pv : p < cur - CLEANUP_THRESHOLD \/ p > cur + CLEANUP_THRESHOLD}

\* cleanupOldPreloads that keeps one position too many
EvictedBy_OffByOne(pv, cur) == {p \in DOMAIN pv : p < cur - CLEANUP_THRESHOLD - 1}

\* cleanupOldPreloads(currentIndex): the positions it destroys
EvictedBy(pv, cur) == {p \in DOMAIN pv : p < cur - CLEANUP_THRESHOLD}

\* cleanupOldPreloads(currentIndex): the cache it leaves
CleanupOldPreloads(pv, cur) == [p \in DOMAIN pv \ EvictedBy(pv, cur) |-> pv[p]]

\* preloadUpcomingVideos that does not look at the type of the slide
RECURSIVE PreloadUpcomingVideosFrom_AnyType(_, _, _, _, _, _, _, _)
PreloadUpcomingVideosFrom_AnyType(i, sl, captured, pv, urls, su, paused, cur) ==
    LET idx == captured + i IN
    IF i > VIDEO_PRELOAD_COUNT \/ idx >= Len(sl) THEN pv
    ELSE LET slide == At(sl, idx)
             videoUrl == IF NeedsResolve(slide, su)
                         THEN (IF ExternalId(slide) \in DOMAIN urls
                               THEN urls[ExternalId(slide)] ELSE NULL)
                         ELSE SlideDataUrl(slide, su)
             pv1 == IF videoUrl # NULL
                    THEN PreloadVideoElement(pv, paused, cur, idx, videoUrl)
                    ELSE pv
         IN PreloadUpcomingVideosFrom_AnyType(i + 1, sl, captured, pv1, urls, su,
                                              paused, cur)

\* preloadUpcomingVideos(slides, currentIndex), loop iteration i; sl and
\* captured are the arguments, cur is store.currentIndex when it runs
RECURSIVE PreloadUpcomingVideosFrom(_, _, _, _, _, _, _, _)
PreloadUpcomingVideosFrom(i, sl, captured, pv, urls, su, paused, cur) ==
    LET idx == captured + i IN
    IF i > VIDEO_PRELOAD_COUNT \/ idx >= Len(sl) THEN pv
    ELSE LET slide == At(sl, idx)
             videoUrl == IF NeedsResolve(slide, su)
                         THEN (IF ExternalId(slide) \in DOMAIN urls
                               THEN urls[ExternalId(slide)] ELSE NULL)
                         ELSE SlideDataUrl(slide, su)
             pv1 == IF SlideType(slide) = "video" /\ videoUrl # NULL
                    THEN PreloadVideoElement(pv, paused, cur, idx, videoUrl)
                    ELSE pv
         IN PreloadUpcomingVideosFrom(i + 1, sl, captured, pv1, urls, su, paused, cur)

PreloadUpcomingVideos(sl, captured, pv, urls, su, paused, cur) ==
    PreloadUpcomingVideosFrom(1, sl, captured, pv, urls, su, paused, cur)

\* ------------------------------------------------------------------------
\* ui module: buffer monitor
\* ------------------------------------------------------------------------

\* pauseAllPreloads that only sets the flag
PauseAllPreloads_FlagOnly(pv) == pv

\* pauseAllPreloads: every playing cached element is paused
PauseAllPreloads(pv) == [p \in DOMAIN pv |-> Handle(pv[p].url, FALSE)]

\* resumePreloads that plays every cached handle
ResumePreloads_All(pv, cur) == [p \in DOMAIN pv |-> [url |-> pv[p].url, playing |-> TRUE]]

\* resumePreloads: the handle of the next position is played (then paused)
ResumePreloads(pv, cur) ==
    [p \in DOMAIN pv |-> IF p = cur + 1 THEN Handle(pv[p].url, TRUE) ELSE pv[p]]

\* checkBuffer that resumes as soon as the buffer is no longer low
CheckBufferFlag_NoHysteresis(hasVideo, h, paused) ==
    IF ~hasVideo THEN paused
    ELSE IF h < MIN_BUFFER_SECONDS /\ ~paused THEN TRUE
    ELSE IF h >= MIN_BUFFER_SECONDS /\ paused THEN FALSE
    ELSE paused

\* checkBuffer that pauses and never resumes
CheckBufferFlag_NeverResumes(hasVideo, h, paused) ==
    IF ~hasVideo THEN paused
    ELSE IF h < MIN_BUFFER_SECONDS /\ ~paused THEN TRUE
    ELSE paused

\* checkBuffer with bufferHealth h: the pause flag it leaves
CheckBufferFlag(hasVideo, h, paused) ==
    IF ~hasVideo THEN paused
    ELSE IF h < MIN_BUFFER_SECONDS /\ ~paused THEN TRUE
    ELSE IF h > HEALTHY_BUFFER_SECONDS /\ paused THEN FALSE
    ELSE paused

\* checkBuffer with bufferHealth h: the cache it leaves
CheckBufferCache(hasVideo, h, paused, pv, cur) ==
    IF ~hasVideo THEN pv
    ELSE IF h < MIN_BUFFER_SECONDS /\ ~paused THEN PauseAllPreloads(pv)
    ELSE IF h > HEALTHY_BUFFER_SECONDS /\ paused THEN ResumePreloads(pv, cur)
    ELSE pv

\* setInterval: an id no live interval has
FreshInterval(live) == CHOOSE n \in 1..(Cardinality(live) + 1) : n \notin live

\* stateHelpers.hasSlides
HasSlides(sl) == Len(sl) > 0

\* stateHelpers.isAtEnd
IsAtEnd(sl, cur) == cur >= Len(sl) - 1

\* the speeds the select offers (two of CONFIG.slideshow.AUTOPLAY_SPEEDS)
AutoplaySpeeds == {2000, DEFAULT_AUTOPLAY_SPEED}

\* stopAutoplay: the live intervals after `if (intervalId) clearInterval`
StopAutoplay(id, live) == IF id # 0 THEN live \ {id} ELSE live

\* stopBufferMonitoring that forgets to clear the interval
StopBufferMonitoring_KeepsInterval(bmi, live) == live

\* stopBufferMonitoring: the live intervals after clearInterval
StopBufferMonitoring(bmi, live) == IF bmi # 0 THEN live \ {bmi} ELSE live

\* ------------------------------------------------------------------------
\* media module: URL resolution cache
\* ------------------------------------------------------------------------

\* an outstanding fetchExternalVideoUrl call: path is "batch"
\* (preloadExternalVideoUrls) or "render" (createSlideElement, obj the slide
\* object its callback mutates)
Resolution(id, path, obj) == [id |-> id, path |-> path, obj |-> obj]

NoObj == [f |-> 0, feed |-> NULL, token |-> NULL, k |-> 0]

\* preloadExternalVideoUrls(slides, startIndex, count), loop iteration i;
\* st holds preloadingInProgress and the outstanding calls
RECURSIVE PreloadExternalVideoUrlsFrom(_, _, _, _, _, _)
PreloadExternalVideoUrlsFrom(i, sl, startIndex, st, urls, su) ==
    LET idx == startIndex + i IN
    IF i >= URL_PRELOAD_COUNT \/ idx >= Len(sl) THEN st
    ELSE LET slide == At(sl, idx)
             videoId == ExternalId(slide)
             skip == \/ ~NeedsResolve(slide, su)
                     \/ videoId \in DOMAIN urls
                     \/ videoId \in st.inprog
             st1 == IF skip THEN st
                    ELSE [inprog |-> st.inprog \cup {videoId},
                          res |-> st.res (+) SetToBag({Resolution(videoId, "batch", NoObj)})]
         IN PreloadExternalVideoUrlsFrom(i + 1, sl, startIndex, st1, urls, su)

PreloadExternalVideoUrls(sl, startIndex, st, urls, su) ==
    PreloadExternalVideoUrlsFrom(0, sl, startIndex, st, urls, su)

\* ------------------------------------------------------------------------
\* ui module: rendering
\* ------------------------------------------------------------------------

Roles == <<"prev", "active", "next">>

NoSlide == [idx |-> -1, type |-> NULL, preloadedUrl |-> NULL]

EmptyDom == [r \in {"prev", "active", "next"} |-> NoSlide]

\* a rendered slide; preloadedUrl is the url of the handle taken from the
\* cache, NULL when the element was created fresh
Rendered(idx, type, preloadedUrl) ==
    [idx |-> idx, type |-> type, preloadedUrl |-> preloadedUrl]

\* createSlideElement that never looks at the resolved-url cache
CreateSlideElement_IgnoresUrlCache(st, sl, role, slideIndex, urls) ==
    LET data == At(sl, slideIndex)
        id == ExternalId(data)
    IN
    IF SlideType(data) = "video"
    THEN IF slideIndex \in DOMAIN st.pv
         THEN [st EXCEPT !.pv = TakePreloaded(st.pv, slideIndex),
                         !.dom[role] = Rendered(slideIndex, "video", st.pv[slideIndex].url)]
         ELSE IF NeedsResolve(data, st.su)
              THEN [st EXCEPT !.inprog = st.inprog \cup {id},
                              !.res = st.res (+) SetToBag({Resolution(id, "render", data)}),
                              !.dom[role] = Rendered(slideIndex, "video", NULL)]
              ELSE [st EXCEPT !.dom[role] = Rendered(slideIndex, "video", NULL)]
    ELSE [st EXCEPT !.dom[role] = Rendered(slideIndex, "image", NULL)]

\* createSlideElement(data, position, slideIndex); st holds the cache, the
\* in-flight set, the outstanding calls, the slide mutations and the dom
CreateSlideElement(st, sl, role, slideIndex, urls) ==
    LET data == At(sl, slideIndex)
        id == ExternalId(data)
    IN
    IF SlideType(data) = "video"
    THEN IF slideIndex \in DOMAIN st.pv
         THEN [st EXCEPT !.pv = TakePreloaded(st.pv, slideIndex),
                         !.dom[role] = Rendered(slideIndex, "video", st.pv[slideIndex].url)]
         ELSE IF NeedsResolve(data, st.su)
              THEN IF id \in DOMAIN urls
                   THEN [st EXCEPT !.su = MapSet(st.su, data, urls[id]),
                                   !.dom[role] = Rendered(slideIndex, "video", NULL)]
                   ELSE [st EXCEPT !.inprog = st.inprog \cup {id},
                                   !.res = st.res (+) SetToBag({Resolution(id, "render", data)}),
                                   !.dom[role] = Rendered(slideIndex, "video", NULL)]
              ELSE [st EXCEPT !.dom[role] = Rendered(slideIndex, "video", NULL)]
    ELSE [st EXCEPT !.dom[role] = Rendered(slideIndex, "image", NULL)]

\* updateSlides, offsets[i] for i from n on
RECURSIVE UpdateSlidesFrom(_, _, _, _, _)
UpdateSlidesFrom(n, st, sl, cur, urls) ==
    IF n > 3 THEN st
    ELSE LET idx == cur + (n - 2)
             st1 == IF idx < 0 \/ idx >= Len(sl) THEN st
                    ELSE CreateSlideElement(st, sl, Roles[n], idx, urls)
         IN UpdateSlidesFrom(n + 1, st1, sl, cur, urls)

\* updateSlides: the existing slides are removed, then prev, active and
\* next are rendered
UpdateSlides(pv, inprog, res, su, sl, cur, urls) ==
    UpdateSlidesFrom(1, [pv |-> pv, inprog |-> inprog, res |-> res, su |-> su,
                         dom |-> EmptyDom], sl, cur, urls)

\* getActiveVideo() is not null
HasActiveVideo(d) == d["active"].type = "video"

\* ------------------------------------------------------------------------
\* ui module: getBufferHealth
\* ------------------------------------------------------------------------

\* a video element as getBufferHealth sees it: video.buffered (TimeRanges,
\* a sequence of ranges) and video.currentTime; present is FALSE for null
VideoElement(buffered, currentTime) ==
    [present |-> TRUE, buffered |-> buffered, currentTime |-> currentTime]

NoVideo == [present |-> FALSE, buffered |-> <<>>, currentTime |-> 0]

TimeRange(start, end) == [start |-> start, end |-> end]

\* TimeRanges objects are normalised: the ranges are non-empty, in
\* ascending order, and neither overlap nor touch
RECURSIVE TimeRangesFrom(_, _)
TimeRangesFrom(lo, n) ==
    IF n = 0 THEN {<<>>}
    ELSE {<<>>} \cup
         UNION {{<<TimeRange(a, b)>> \o rest : rest \in TimeRangesFrom(b + 1, n - 1)} :
                   a \in lo..MaxTime, b \in lo..MaxTime}

NormalisedRanges ==
    {r \in TimeRangesFrom(0, MaxRanges) :
        \A i \in 1..Len(r) : r[i].start < r[i].end}

Videos ==
    {NoVideo} \cup
    {VideoElement(r, t) : r \in NormalisedRanges, t \in 0..MaxTime}

\* getBufferHealth that takes the first range without looking where the
\* playback position is
GetBufferHealthFrom_FirstRange(i, v) ==
    IF i >= Len(v.buffered) + 1 THEN 0
    ELSE v.buffered[i].end - v.currentTime

\* the loop of getBufferHealth from range i (1-based here) on
RECURSIVE GetBufferHealthFrom(_, _)
GetBufferHealthFrom(i, v) ==
    IF i >= Len(v.buffered) + 1 THEN 0
    ELSE IF v.buffered[i].start <= v.currentTime /\ v.currentTime <= v.buffered[i].end
         THEN v.buffered[i].end - v.currentTime
         ELSE GetBufferHealthFrom(i + 1, v)

\* getBufferHealth(video)
GetBufferHealth(v) ==
    IF ~v.present \/ Len(v.buffered) = 0 THEN 0
    ELSE GetBufferHealthFrom(1, v)

\* ------------------------------------------------------------------------
\* Initial state
\* ------------------------------------------------------------------------

\* the store fields of the video caches, which the initialState of the
\* state module at hand does not list: they start empty, as the
\* specification describes the caches of a fresh session
InitCaches ==
    /\ preloadedVideos = EmptyMap
    /\ preloadedVideoUrls = EmptyMap
    /\ preloadingInProgress = {}
    /\ preloadingPaused = FALSE

\* ------------------------------------------------------------------------
\* api module: fetchWithRetry
\* ------------------------------------------------------------------------

RETRY_ATTEMPTS == 3

RETRY_BASE_DELAY == 1000

\* the urls a call is given, and what jsonp resolves or rejects with
RetryUrls == {"u1", "u2"}

JsonpData(url) == <<"data", url>>

JsonpErrors == {"timeout", "http"}

\* `let lastError;`
UNDEFINED == "undefined"

\* a backoff that waits the base delay before every retry
RetryDelay_Constant(attempt) == RETRY_BASE_DELAY

\* CONFIG.api.RETRY_BASE_DELAY * Math.pow(2, attempt)
RetryDelay(attempt) == RETRY_BASE_DELAY * 2^attempt

\* no call of fetchWithRetry made; attempts, errors and waits record the
\* jsonp calls made, the errors caught and the delays slept
RetryIdle ==
    [pc |-> "idle", url |-> NULL, retries |-> 0, attempt |-> 0,
     lastError |-> UNDEFINED, result |-> NULL,
     attempts |-> 0, errors |-> <<>>, waits |-> <<>>]

\* the head of the for loop with the locals r: the next jsonp call, or
\* `throw lastError` when attempt has reached retries
RetryLoop(r) ==
    IF r.attempt < r.retries
    THEN [r EXCEPT !.pc = "jsonp", !.attempts = @ + 1]
    ELSE [r EXCEPT !.pc = "thrown", !.result = r.lastError]

\* ------------------------------------------------------------------------
\* autocomplete module
\* ------------------------------------------------------------------------

\* the contents of the dropdown element: nothing, the "Searching..." line,
\* the "No subreddits found" line, or the items rendered for a query
Dropdown(kind, query, items) == [kind |-> kind, query |-> query, items |-> items]

\* the state object of the module and the empty dropdown element
AutocompleteInit ==
    [highlightedIndex |-> -1, results |-> <<>>, isOpen |-> FALSE,
     currentQuery |-> <<>>, dropdown |-> Dropdown("none", <<>>, <<>>)]

\* AUTOCOMPLETE_CONFIG.MIN_CHARS
MIN_CHARS == 3

\* input values are sequences of characters; the values the user types
InputValues ==
    { <<>>, <<"c", "a">>, <<"c", "a", "t">>, <<"d", "o", "g">>,
      <<"d", "o", "g", " ">>, <<"c", "a", "t", "+", "d", "o", "g">> }

\* value.lastIndexOf('+'), 1-based, 0 when there is none
RECURSIVE LastPlusIndex(_, _)
LastPlusIndex(value, i) ==
    IF i = 0 THEN 0
    ELSE IF value[i] = "+" THEN i
    ELSE LastPlusIndex(value, i - 1)

\* String.prototype.trim
RECURSIVE Trim(_)
Trim(str) ==
    IF str = <<>> THEN str
    ELSE IF Head(str) = " " THEN Trim(Tail(str))
    ELSE IF str[Len(str)] = " " THEN Trim(SubSeq(str, 1, Len(str) - 1))
    ELSE str

\* extractSearchTerm(value)
ExtractSearchTerm(value) ==
    LET lastPlusIndex == LastPlusIndex(value, Len(value))
    IN [searchTerm |-> Trim(SubSeq(value, lastPlusIndex + 1, Len(value))),
        prefix |-> SubSeq(value, 1, lastPlusIndex)]

\* what the search API answers for a query: two subreddits whose names
\* start with it
SearchResults(query) ==
    << [name |-> query \o <<"s">>], [name |-> query \o <<"x">>] >>

\* a check that takes no result for stale
IsStale_Never(currentTerm, searchTerm) == FALSE

\* `if (currentTerm !== searchTerm) return;`
IsStale(currentTerm, searchTerm) == currentTerm # searchTerm

\* hideDropdown(): the contents of the dropdown element stay
HideDropdown(ac) ==
    [ac EXCEPT !.isOpen = FALSE, !.highlightedIndex = -1, !.results = <<>>]

\* renderDropdown(results, query)
RenderDropdown(ac, results, query) ==
    [ac EXCEPT !.results = results,
               !.highlightedIndex = -1,
               !.dropdown = IF results = <<>>
                            THEN Dropdown("empty", query, <<>>)
                            ELSE Dropdown("items", query,
                                          [i \in DOMAIN results |-> results[i].name])]

\* showLoading()
ShowLoading(ac) ==
    [ac EXCEPT !.dropdown = Dropdown("loading", <<>>, <<>>), !.isOpen = TRUE]

\* updateHighlight(newIndex), positions 0-based as in the code
UpdateHighlight(ac, newIndex) ==
    LET n == Len(ac.dropdown.items)
    IN [ac EXCEPT !.highlightedIndex =
            IF newIndex < 0 THEN n - 1
            ELSE IF newIndex >= n THEN 0
            ELSE newIndex]

\* handleInput after the await, with the value the input has by then
HandleInputResume(ac, value, searchTerm, results) ==
    IF IsStale(ExtractSearchTerm(value).searchTerm, searchTerm) THEN ac
    ELSE IF results = <<>> /\ Len(searchTerm) >= MIN_CHARS
         THEN [RenderDropdown(ac, <<>>, searchTerm) EXCEPT !.isOpen = TRUE]
    ELSE IF Len(results) > 0
         THEN [RenderDropdown(ac, results, searchTerm) EXCEPT !.isOpen = TRUE]
    ELSE HideDropdown(ac)

\* ------------------------------------------------------------------------
\* proxy worker
\* ------------------------------------------------------------------------

\* corsHeaders
CorsHeaders ==
    [h \in {"Access-Control-Allow-Origin", "Access-Control-Allow-Methods",
            "Access-Control-Allow-Headers"} |->
        CASE h = "Access-Control-Allow-Origin" -> "*"
          [] h = "Access-Control-Allow-Methods" -> "GET, OPTIONS"
          [] OTHER -> "Content-Type, Authorization"]

JsonHeaders == [h \in {"Content-Type"} |-> "application/json"]

\* { ...a, ...b } and Headers.set: the entries of b over those of a
Merge(a, b) ==
    [h \in DOMAIN a \cup DOMAIN b |-> IF h \in DOMAIN b THEN b[h] ELSE a[h]]

\* the values of the url parameter: none, the empty string, and targets
TargetUrls ==
    { NULL, "",
      "https://www.reddit.com/r/pics.json", "https://old.reddit.com/r/pics.json",
      "https://api.redgifs.com/v2/gifs/x", "https://media.redgifs.com/x.mp4",
      "https://WWW.REDDIT.COM/r/pics.json", "http://www.reddit.com/",
      "https://www.reddit.com@evil.com/", "https://www.reddit.com.evil.com/",
      "https://i.redd.it/x.jpg", "file:///etc/passwd",
      "www.reddit.com/r/pics.json", "/r/pics.json" }

\* new URL(targetUrl).hostname: the host in lower case, without userinfo
\* and port; "throws" for a string that is no absolute URL
Hostname(targetUrl) ==
    CASE targetUrl = "https://www.reddit.com/r/pics.json" -> "www.reddit.com"
      [] targetUrl = "https://old.reddit.com/r/pics.json" -> "old.reddit.com"
      [] targetUrl = "https://api.redgifs.com/v2/gifs/x" -> "api.redgifs.com"
      [] targetUrl = "https://media.redgifs.com/x.mp4" -> "media.redgifs.com"
      [] targetUrl = "https://WWW.REDDIT.COM/r/pics.json" -> "www.reddit.com"
      [] targetUrl = "http://www.reddit.com/" -> "www.reddit.com"
      [] targetUrl = "https://www.reddit.com@evil.com/" -> "evil.com"
      [] targetUrl = "https://www.reddit.com.evil.com/" -> "www.reddit.com.evil.com"
      [] targetUrl = "https://i.redd.it/x.jpg" -> "i.redd.it"
      [] targetUrl = "file:///etc/passwd" -> ""
      [] OTHER -> "throws"

\* the file holds two declarations of handleRequest: `allowed` of the
\* first and of the second
Allowed(copy) ==
    IF copy = 1
    THEN {"old.reddit.com", "www.reddit.com", "api.redgifs.com", "media.redgifs.com"}
    ELSE {"old.reddit.com", "www.reddit.com", "api.redgifs.com"}

\* a worker that lets every host through
IsAllowed_Any(allowed, targetHost) == TRUE

\* allowed.includes(targetHost)
IsAllowed(allowed, targetHost) == targetHost \in allowed

\* new Response(body, { status, headers })
Response(status, headers, body) ==
    [status |-> status, headers |-> headers, body |-> body]

\* what the upstream server answers
UpstreamResponses ==
    { Response(200, JsonHeaders, "data"),
      Response(404, JsonHeaders, "not found"),
      Response(200, Merge(JsonHeaders,
                          [h \in {"Access-Control-Allow-Origin"} |->
                               "https://www.reddit.com"]), "data") }

Requests ==
    [method : {"GET", "POST", "OPTIONS"}, url : TargetUrls,
     authorization : BOOLEAN]

\* no request received
ProxyIdle ==
    [pc |-> "idle", copy |-> 0, request |-> NULL, fetched |-> <<>>,
     upstream |-> "none", response |-> NULL]

\* handleRequest(request) of the declaration `copy` up to its await or
\* its return
HandleRequestFrom(copy, request) ==
    LET p == [ProxyIdle EXCEPT !.copy = copy, !.request = request]
        respond(r) == [p EXCEPT !.pc = "responded", !.response = r]
        targetUrl == request.url
    IN IF request.method = "OPTIONS"
       THEN respond(Response(200, CorsHeaders, NULL))
       ELSE IF targetUrl = NULL \/ targetUrl = ""
       THEN respond(Response(400, Merge(CorsHeaders, JsonHeaders),
                             "Missing url parameter"))
       ELSE IF Hostname(targetUrl) = "throws"
       THEN respond(Response(400, Merge(CorsHeaders, JsonHeaders), "Invalid URL"))
       ELSE IF ~IsAllowed(Allowed(copy), Hostname(targetUrl))
       THEN respond(Response(403, Merge(CorsHeaders, JsonHeaders),
                             "Domain not allowed"))
       ELSE [p EXCEPT !.pc = "fetching",
                      !.fetched = <<[url |-> targetUrl,
                                     authorization |-> request.authorization]>>]

\* initialState of the state module, and the module variables of ui
InitSession ==
    /\ slides = <<>>
    /\ currentIndex = 0
    /\ subreddit = ""
    /\ after = NULL
    /\ loading = FALSE
    /\ slideUrl = EmptyMap
    /\ preloadedImages = {}
    /\ InitCaches
    /\ bufferMonitorInterval = 0
    /\ liveIntervals = {}
    /\ timers = <<>>
    /\ resolutions = EmptyBag
    /\ fetches = EmptyBag
    /\ nload = 0
    /\ npage = 0
    /\ dom = EmptyDom
    /\ destroyed = {}
    /\ imageRequests = EmptyBag
    /\ autoplay = FALSE
    /\ autoplayInterval = 0
    /\ autoplaySpeed = DEFAULT_AUTOPLAY_SPEED
    /\ liveAutoplay = {}
    /\ retry = RetryIdle
    /\ input = <<>>
    /\ autocomplete = AutocompleteInit
    /\ debouncePending = FALSE
    /\ searches = <<>>
    /\ proxy = ProxyIdle

\* a session starts with no call of getBufferHealth made
Init ==
    /\ InitSession
    /\ video = NoVideo
    /\ health = -1

\* ------------------------------------------------------------------------
\* app module: loading a feed
\* ------------------------------------------------------------------------

\* an outstanding fetchPosts call; snapshot is the store.slides that
\* loadMorePosts captured when it started
Fetch(kind, feed, token, snapshot) ==
    [kind |-> kind, feed |-> feed, token |-> token, snapshot |-> snapshot]

\* loadSubreddit(subreddit) up to the await of fetchPosts
LoadSubreddit(feed) ==
    /\ nload < MaxLoads
    /\ slides' = <<>>
    /\ currentIndex' = 0
    /\ subreddit' = feed
    /\ after' = NULL
    /\ loading' = TRUE
    /\ preloadedImages' = {}
    /\ imageRequests' = EmptyBag
    /\ nload' = nload + 1
    /\ fetches' = fetches (+) SetToBag({Fetch("load", feed, NULL, <<>>)})
    /\ liveAutoplay' = StopAutoplay(autoplayInterval, liveAutoplay)
    /\ autoplay' = FALSE
    /\ autoplayInterval' = 0
    /\ UNCHANGED <<otherVars, autoplaySpeed, video, health, slideUrl, preloadedVideos, preloadedVideoUrls,
                   preloadingInProgress, preloadingPaused,
                   bufferMonitorInterval, liveIntervals, timers, resolutions,
                   npage, dom, destroyed>>

\* loadSubreddit after the await: fetchPosts resolved
LoadSubredditDone(fr) ==
    /\ fr \in BagToSet(fetches) /\ fr.kind = "load"
    /\ LET page == FeedPage(fr.feed, fr.token)
           sl == NewSlides(npage + 1, fr.feed, fr.token)
           st == UpdateSlides(preloadedVideos, preloadingInProgress, resolutions,
                              slideUrl, sl, currentIndex, preloadedVideoUrls)
       IN /\ BagCardinality(st.res) <= MaxResolutions
          /\ slides' = sl
          /\ after' = page.after
          /\ loading' = FALSE
          /\ npage' = npage + 1
          /\ preloadedVideos' = st.pv
          /\ preloadingInProgress' = st.inprog
          /\ resolutions' = st.res
          /\ slideUrl' = st.su
          /\ dom' = st.dom
    /\ fetches' = fetches (-) SetToBag({fr})
    /\ UNCHANGED <<otherVars, autoplayVars, imageRequests, video, health, currentIndex, subreddit,
                   preloadedImages, preloadedVideoUrls,
                   preloadingPaused, bufferMonitorInterval, liveIntervals,
                   timers, nload, destroyed>>

\* loadSubreddit after the await: fetchPosts rejected
LoadSubredditFailed(fr) ==
    /\ fr \in BagToSet(fetches) /\ fr.kind = "load"
    /\ loading' = FALSE
    /\ fetches' = fetches (-) SetToBag({fr})
    /\ UNCHANGED <<otherVars, autoplayVars, imageRequests, video, health, slides, currentIndex,
                   subreddit, after, slideUrl,
                   preloadedImages, preloadedVideos, preloadedVideoUrls,
                   preloadingInProgress, preloadingPaused,
                   bufferMonitorInterval, liveIntervals, timers, resolutions,
                   nload, npage, dom, destroyed>>

\* ------------------------------------------------------------------------
\* controls module: navigation
\* ------------------------------------------------------------------------

\* a pending setTimeout(..., 100): startBufferMonitoring, or the closure
\* of preloadUpcomingMedia with the slides and currentIndex it captured
MonitorTimeout == [kind |-> "monitor", slides |-> <<>>, idx |-> 0]

PreloadTimeout(sl, idx) == [kind |-> "preload", slides |-> sl, idx |-> idx]

\* preloadUpcomingMedia, part 1: the image urls it requests and records
UpcomingImages(sl, cur) ==
    {SlideDataUrl(At(sl, idx), EmptyMap) :
        idx \in {j \in (cur + 1)..Min(cur + PRELOAD_COUNT, Len(sl) - 1) :
                    SlideType(At(sl, j)) = "image"}}

\* preloadUpcomingMedia that requests every image of the window again
RequestedImages_NoCheck(sl, cur, images) == UpcomingImages(sl, cur)

\* preloadUpcomingMedia, part 1: the urls for which it creates an Image,
\* those of the window that preloadedImages does not have
RequestedImages(sl, cur, images) == UpcomingImages(sl, cur) \ images

\* stateHelpers.shouldPreloadPosts
ShouldPreloadPosts(sl, cur, aft, ld) ==
    Len(sl) - cur < PRELOAD_THRESHOLD /\ aft # NULL /\ ~ld

\* a setState that moves the position and leaves the pause flag alone
NavigateSetState_KeepsPause(newIdx, paused) ==
    [currentIndex |-> newIdx, preloadingPaused |-> paused]

\* store.setState({ currentIndex: newIdx, preloadingPaused: false })
NavigateSetState(newIdx, paused) ==
    [currentIndex |-> newIdx, preloadingPaused |-> FALSE]

\* the delayed preload steps among the pending timeouts ts
IsPreloadTimeout(t) == t.kind = "preload"

PendingPreloads(ts) == Len(SelectSeq(ts, IsPreloadTimeout))

\* a bounds check that takes the last slide for the end
InBounds_ExcludesLast(newIdx, sl) == ~(newIdx < 0 \/ newIdx >= Len(sl) - 1)

\* a bounds check that lets navigate run past the last slide
InBounds_NoUpperCheck(newIdx, sl) == ~(newIdx < 0)

\* the bounds check of navigate
InBounds(newIdx, sl) == ~(newIdx < 0 \/ newIdx >= Len(sl))

\* navigate(direction)
Navigate(direction) ==
    LET newIdx == currentIndex + direction
        set == NavigateSetState(newIdx, preloadingPaused)
        \* updateSlides()
        st == UpdateSlides(preloadedVideos, preloadingInProgress, resolutions,
                           slideUrl, slides, set.currentIndex, preloadedVideoUrls)
        \* setTimeout(startBufferMonitoring, 100)
        timers1 == IF (newIdx + 1) \in DOMAIN slides
                      /\ SlideType(At(slides, newIdx)) = "video"
                   THEN Append(timers, MonitorTimeout) ELSE timers
        \* preloadUpcomingMedia()
        rs == PreloadExternalVideoUrls(slides, set.currentIndex + 1,
                                       [inprog |-> st.inprog, res |-> st.res],
                                       preloadedVideoUrls, st.su)
        timers2 == Append(timers1, PreloadTimeout(slides, set.currentIndex))
        \* cleanupOldPreloads(newIdx)
        evicted == {[pos |-> p, url |-> st.pv[p].url] : p \in EvictedBy(st.pv, newIdx)}
        pv2 == CleanupOldPreloads(st.pv, newIdx)
        \* loadMorePosts()
        more == ShouldPreloadPosts(slides, set.currentIndex, after, loading)
    IN
    IF ~InBounds(newIdx, slides)
    THEN UNCHANGED vars
    ELSE
    /\ liveIntervals' = StopBufferMonitoring(bufferMonitorInterval, liveIntervals)
    /\ bufferMonitorInterval' = 0
    /\ currentIndex' = set.currentIndex
    /\ preloadingPaused' = set.preloadingPaused
    /\ dom' = st.dom
    /\ slideUrl' = st.su
    /\ imageRequests' = imageRequests (+)
          SetToBag(RequestedImages(slides, set.currentIndex, preloadedImages))
    /\ preloadedImages' = preloadedImages
          \cup RequestedImages(slides, set.currentIndex, preloadedImages)
    /\ preloadingInProgress' = rs.inprog
    /\ resolutions' = rs.res
    /\ timers' = timers2
    /\ preloadedVideos' = pv2
    /\ destroyed' = destroyed \cup evicted
    /\ IF more
       THEN /\ loading' = TRUE
            /\ fetches' = fetches (+)
                   SetToBag({Fetch("more", subreddit, after, slides)})
       ELSE UNCHANGED <<loading, fetches>>
    /\ UNCHANGED <<otherVars, autoplayVars, video, health, slides, subreddit, after,
                   preloadedVideoUrls, nload, npage>>

\* loadMorePosts after the await: fetchPosts resolved
LoadMoreDone(fr) ==
    /\ fr \in BagToSet(fetches) /\ fr.kind = "more"
    /\ slides' = fr.snapshot \o NewSlides(npage + 1, fr.feed, fr.token)
    /\ after' = FeedPage(fr.feed, fr.token).after
    /\ loading' = FALSE
    /\ npage' = npage + 1
    /\ fetches' = fetches (-) SetToBag({fr})
    /\ UNCHANGED <<otherVars, autoplayVars, imageRequests, video, health, currentIndex, subreddit,
                   slideUrl, preloadedImages,
                   preloadedVideos, preloadedVideoUrls, preloadingInProgress,
                   preloadingPaused, bufferMonitorInterval, liveIntervals,
                   timers, resolutions, nload, dom, destroyed>>

\* loadMorePosts after the await: fetchPosts rejected
LoadMoreFailed(fr) ==
    /\ fr \in BagToSet(fetches) /\ fr.kind = "more"
    /\ loading' = FALSE
    /\ fetches' = fetches (-) SetToBag({fr})
    /\ UNCHANGED <<otherVars, autoplayVars, imageRequests, video, health, slides, currentIndex,
                   subreddit, after, slideUrl,
                   preloadedImages, preloadedVideos, preloadedVideoUrls,
                   preloadingInProgress, preloadingPaused,
                   bufferMonitorInterval, liveIntervals, timers, resolutions,
                   nload, npage, dom, destroyed>>

\* ------------------------------------------------------------------------
\* Timers and callbacks
\* ------------------------------------------------------------------------

\* the timeout of navigate fires: startBufferMonitoring(), whose immediate
\* checkBuffer() finds bufferHealth h
StartBufferMonitoring(h) ==
    /\ timers # <<>> /\ Head(timers).kind = "monitor"
    /\ timers' = Tail(timers)
    /\ LET live1 == StopBufferMonitoring(bufferMonitorInterval, liveIntervals)
           id == FreshInterval(live1)
       IN /\ bufferMonitorInterval' = id
          /\ liveIntervals' = live1 \cup {id}
    /\ preloadingPaused' = CheckBufferFlag(HasActiveVideo(dom), h, preloadingPaused)
    /\ preloadedVideos' = CheckBufferCache(HasActiveVideo(dom), h, preloadingPaused,
                                           preloadedVideos, currentIndex)
    /\ UNCHANGED <<otherVars, autoplayVars, imageRequests, video, health, slides, currentIndex,
                   subreddit, after, loading, slideUrl,
                   preloadedImages, preloadedVideoUrls, preloadingInProgress,
                   resolutions, fetches, nload, npage, dom, destroyed>>

\* a tick of a live interval: checkBuffer() finds bufferHealth h
CheckBuffer(id, h) ==
    /\ id \in liveIntervals
    /\ preloadingPaused' = CheckBufferFlag(HasActiveVideo(dom), h, preloadingPaused)
    /\ preloadedVideos' = CheckBufferCache(HasActiveVideo(dom), h, preloadingPaused,
                                           preloadedVideos, currentIndex)
    /\ UNCHANGED <<otherVars, autoplayVars, imageRequests, video, health, slides, currentIndex,
                   subreddit, after, loading, slideUrl,
                   preloadedImages, preloadedVideoUrls, preloadingInProgress,
                   bufferMonitorInterval, liveIntervals, timers, resolutions,
                   fetches, nload, npage, dom, destroyed>>

\* the timeout of preloadUpcomingMedia fires: preloadUpcomingVideos(slides,
\* currentIndex) with the captured arguments
PreloadStep ==
    /\ timers # <<>> /\ Head(timers).kind = "preload"
    /\ timers' = Tail(timers)
    /\ preloadedVideos' = PreloadUpcomingVideos(Head(timers).slides, Head(timers).idx,
                              preloadedVideos, preloadedVideoUrls, slideUrl,
                              preloadingPaused, currentIndex)
    /\ UNCHANGED <<otherVars, autoplayVars, imageRequests, video, health, slides, currentIndex,
                   subreddit, after, loading, slideUrl,
                   preloadedImages, preloadedVideoUrls, preloadingInProgress,
                   preloadingPaused, bufferMonitorInterval, liveIntervals,
                   resolutions, fetches, nload, npage, dom, destroyed>>

\* fetchExternalVideoUrl resolves with a url: the then-callback of the
\* batch path or of the renderer
ResolutionSucceeded(r) ==
    /\ r \in BagToSet(resolutions)
    /\ resolutions' = resolutions (-) SetToBag({r})
    /\ preloadedVideoUrls' = MapSet(preloadedVideoUrls, r.id, ResolvedUrl(r.id))
    /\ preloadingInProgress' = preloadingInProgress \ {r.id}
    /\ slideUrl' = IF r.path = "render"
                   THEN MapSet(slideUrl, r.obj, ResolvedUrl(r.id)) ELSE slideUrl
    /\ UNCHANGED <<otherVars, autoplayVars, imageRequests, video, health, slides, currentIndex,
                   subreddit, after, loading,
                   preloadedImages, preloadedVideos, preloadingPaused,
                   bufferMonitorInterval, liveIntervals, timers, fetches,
                   nload, npage, dom, destroyed>>

\* a failure callback that records the null result in the url cache
ResolutionFailed_Poisons(r) ==
    /\ r \in BagToSet(resolutions)
    /\ resolutions' = resolutions (-) SetToBag({r})
    /\ preloadedVideoUrls' = MapSet(preloadedVideoUrls, r.id, NULL)
    /\ preloadingInProgress' = preloadingInProgress \ {r.id}
    /\ UNCHANGED <<otherVars, autoplayVars, imageRequests, video, health, slides, currentIndex,
                   subreddit, after, loading, slideUrl,
                   preloadedImages, preloadedVideos,
                   preloadingPaused, bufferMonitorInterval, liveIntervals,
                   timers, fetches, nload, npage, dom, destroyed>>

\* a failure callback that leaves the id in the in-flight set
ResolutionFailed_KeepsInFlight(r) ==
    /\ r \in BagToSet(resolutions)
    /\ resolutions' = resolutions (-) SetToBag({r})
    /\ UNCHANGED <<otherVars, autoplayVars, imageRequests, video, health, slides, currentIndex,
                   subreddit, after, loading, slideUrl,
                   preloadedImages, preloadedVideos, preloadedVideoUrls,
                   preloadingInProgress,
                   preloadingPaused, bufferMonitorInterval, liveIntervals,
                   timers, fetches, nload, npage, dom, destroyed>>

\* fetchExternalVideoUrl resolves with null
ResolutionFailed(r) ==
    /\ r \in BagToSet(resolutions)
    /\ resolutions' = resolutions (-) SetToBag({r})
    /\ preloadingInProgress' = preloadingInProgress \ {r.id}
    /\ UNCHANGED <<otherVars, autoplayVars, imageRequests, video, health, slides, currentIndex,
                   subreddit, after, loading, slideUrl,
                   preloadedImages, preloadedVideos, preloadedVideoUrls,
                   preloadingPaused, bufferMonitorInterval, liveIntervals,
                   timers, fetches, nload, npage, dom, destroyed>>

\* the play() promise of a nudged handle resolves: video.pause()
NudgeSettle(pos) ==
    /\ pos \in DOMAIN preloadedVideos /\ preloadedVideos[pos].playing
    /\ preloadedVideos' = [preloadedVideos EXCEPT ![pos].playing = FALSE]
    /\ UNCHANGED <<otherVars, autoplayVars, imageRequests, video, health, slides, currentIndex,
                   subreddit, after, loading, slideUrl,
                   preloadedImages, preloadedVideoUrls, preloadingInProgress,
                   preloadingPaused, bufferMonitorInterval, liveIntervals,
                   timers, resolutions, fetches, nload, npage, dom, destroyed>>

\* the error listener of a cached handle runs
PreloadError(pos) ==
    /\ pos \in DOMAIN preloadedVideos
    /\ preloadedVideos' = PreloadErrorListener(preloadedVideos, pos)
    /\ UNCHANGED <<otherVars, autoplayVars, imageRequests, video, health, slides, currentIndex,
                   subreddit, after, loading, slideUrl,
                   preloadedImages, preloadedVideoUrls, preloadingInProgress,
                   preloadingPaused, bufferMonitorInterval, liveIntervals,
                   timers, resolutions, fetches, nload, npage, dom, destroyed>>

\* the error event of a video element that createSlideElement took from
\* the cache and put on screen: the listener preloadVideoElement registered
\* stays on the element, deletes the entry at the element's position and
\* removes the element from the document
TakenHandleError(role) ==
    /\ dom[role].type = "video"
    /\ dom[role].preloadedUrl # NULL
    /\ preloadedVideos' = PreloadErrorListener(preloadedVideos, dom[role].idx)
    /\ dom' = [dom EXCEPT ![role] = [@ EXCEPT !.type = "removed"]]
    /\ UNCHANGED <<otherVars, autoplayVars, imageRequests, video, health, slides, currentIndex,
                   subreddit, after, loading, slideUrl,
                   preloadedImages, preloadedVideoUrls, preloadingInProgress,
                   preloadingPaused, bufferMonitorInterval, liveIntervals,
                   timers, resolutions, fetches, nload, npage, destroyed>>

\* the store and module variables of a session, all but video and health
sessionVars == <<slides, currentIndex, subreddit, after, loading, slideUrl,
                 preloadedVideos, preloadedImages, preloadedVideoUrls,
                 preloadingInProgress, preloadingPaused,
                 bufferMonitorInterval, liveIntervals, timers, resolutions,
                 fetches, nload, npage, dom, destroyed, imageRequests,
                 autoplayVars, otherVars>>

\* a call of getBufferHealth on the video element
Sample ==
    /\ health = -1
    /\ health' = GetBufferHealth(video)
    /\ UNCHANGED video
    /\ UNCHANGED sessionVars

\* the element buffers, plays or seeks, or another element becomes the
\* active one
Buffering(v) ==
    /\ health # -1
    /\ video' = v
    /\ health' = -1
    /\ UNCHANGED sessionVars

\* the resolutions outstanding after navigate(d): those of updateSlides and
\* of preloadExternalVideoUrls added to the outstanding ones
ResolutionsAfter(d) ==
    LET st == UpdateSlides(preloadedVideos, preloadingInProgress, resolutions,
                           slideUrl, slides, currentIndex + d, preloadedVideoUrls)
        rs == PreloadExternalVideoUrls(slides, currentIndex + d + 1,
                                       [inprog |-> st.inprog, res |-> st.res],
                                       preloadedVideoUrls, st.su)
    IN BagCardinality(rs.res)

\* navigate(d) keeps the pending delayed steps and the outstanding
\* resolutions within the bounds
WithinBounds(d) ==
    /\ PendingPreloads(timers) < MaxPending
    /\ InBounds(currentIndex + d, slides) => ResolutionsAfter(d) <= MaxResolutions

\* One session: the user loads one feed, navigates, and everything the
\* environment can do happens (failures and errors included)
Next ==
    \/ \E feed \in {"b"} : nload = 0 /\ LoadSubreddit(feed)
    \/ \E fr \in BagToSet(fetches) : LoadSubredditDone(fr)
    \/ \E fr \in BagToSet(fetches) : LoadSubredditFailed(fr)
    \/ \E d \in {-1, 1} : WithinBounds(d) /\ Navigate(d)
    \/ \E fr \in BagToSet(fetches) : LoadMoreDone(fr)
    \/ \E fr \in BagToSet(fetches) : LoadMoreFailed(fr)
    \/ \E h \in HealthSamples : StartBufferMonitoring(h)
    \/ \E id \in liveIntervals, h \in HealthSamples : CheckBuffer(id, h)
    \/ PreloadStep
    \/ \E r \in BagToSet(resolutions) : ResolutionSucceeded(r)
    \/ \E r \in BagToSet(resolutions) : ResolutionFailed(r)
    \/ \E pos \in DOMAIN preloadedVideos : NudgeSettle(pos)
    \/ \E pos \in DOMAIN preloadedVideos : PreloadError(pos)
    \/ \E role \in {"prev", "active", "next"} : TakenHandleError(role)

Spec == Init /\ [][Next]_vars

\* One session in which every network call eventually completes
SpecLive ==
    /\ Spec
    /\ WF_vars(\E r \in BagToSet(resolutions) :
                  ResolutionSucceeded(r) \/ ResolutionFailed(r))

\* Feed reloads: the user loads feeds one after another (or while an
\* earlier load is still outstanding) and navigates
NextReload ==
    \/ \E feed \in {"a", "c"} : LoadSubreddit(feed)
    \/ \E fr \in BagToSet(fetches) : LoadSubredditDone(fr)
    \/ \E d \in {-1, 1} : WithinBounds(d) /\ Navigate(d)
    \/ \E fr \in BagToSet(fetches) : LoadMoreDone(fr)
    \/ \E h \in HealthSamples : StartBufferMonitoring(h)
    \/ PreloadStep

SpecReload == Init /\ [][NextReload]_vars

\* One session without the events of the cached elements (settling of a
\* nudge, error): the user loads one feed and navigates while fetches,
\* resolutions, delayed steps and the buffer monitor run or fail
NextNavigate ==
    \/ \E feed \in {"b"} : nload = 0 /\ LoadSubreddit(feed)
    \/ \E fr \in BagToSet(fetches) : LoadSubredditDone(fr)
    \/ \E fr \in BagToSet(fetches) : LoadSubredditFailed(fr)
    \/ \E d \in {-1, 1} : WithinBounds(d) /\ Navigate(d)
    \/ \E fr \in BagToSet(fetches) : LoadMoreDone(fr)
    \/ \E fr \in BagToSet(fetches) : LoadMoreFailed(fr)
    \/ \E h \in HealthSamples : StartBufferMonitoring(h)
    \/ \E id \in liveIntervals, h \in HealthSamples : CheckBuffer(id, h)
    \/ PreloadStep
    \/ \E r \in BagToSet(resolutions) : ResolutionSucceeded(r)
    \/ \E r \in BagToSet(resolutions) : ResolutionFailed(r)

SpecNavigate == Init /\ [][NextNavigate]_vars

\* One session with bursts of navigation: the user holds a key down, so
\* that several navigations run before the first delayed preload step fires
NextBurst ==
    \/ \E feed \in {"b"} : nload = 0 /\ LoadSubreddit(feed)
    \/ \E fr \in BagToSet(fetches) : LoadSubredditDone(fr)
    \/ \E d \in {-1, 1} :
          /\ PendingPreloads(timers) < MaxBurst
          /\ InBounds(currentIndex + d, slides) => ResolutionsAfter(d) <= MaxResolutions
          /\ Navigate(d)
    \/ \E fr \in BagToSet(fetches) : LoadMoreDone(fr)
    \/ \E h \in {HealthyHealth} : StartBufferMonitoring(h)
    \/ PreloadStep
    \/ \E r \in BagToSet(resolutions) : ResolutionSucceeded(r)

SpecBurst == Init /\ [][NextBurst]_vars

\* One session in which the interval of the buffer monitor keeps firing
\* while it is live, and the active video stays buffered well ahead
SpecRecovery ==
    /\ Spec
    /\ WF_vars(\E id \in liveIntervals : CheckBuffer(id, HealthyHealth))

\* getBufferHealth on every video element within the bounds: no element,
\* or one at the start of its media with any ranges buffered; Buffering
\* leads to every other element
InitBuffer ==
    /\ InitSession
    /\ video \in {v \in Videos : v.currentTime = 0}
    /\ health = -1

NextBuffer ==
    \/ Sample
    \/ \E v \in Videos : Buffering(v)

SpecBuffer == InitBuffer /\ [][NextBuffer]_vars

\* ------------------------------------------------------------------------
\* controls module: autoplay
\* ------------------------------------------------------------------------

\* the store and module variables that the autoplay functions leave alone
nonAutoplayVars == <<slides, currentIndex, subreddit, after, loading, slideUrl,
                     preloadedImages, preloadedVideos, preloadedVideoUrls,
                     preloadingInProgress, preloadingPaused,
                     bufferMonitorInterval, liveIntervals, timers, resolutions,
                     fetches, nload, npage, dom, destroyed, imageRequests,
                     video, health, otherVars>>

\* startAutoplay(): setInterval, then the flag and the id go to the store
StartAutoplay ==
    /\ IF ~HasSlides(slides)
       THEN UNCHANGED <<autoplay, autoplayInterval, liveAutoplay>>
       ELSE LET id == FreshInterval(liveAutoplay)
            IN /\ liveAutoplay' = liveAutoplay \cup {id}
               /\ autoplay' = TRUE
               /\ autoplayInterval' = id
    /\ UNCHANGED <<autoplaySpeed, nonAutoplayVars>>

\* stopAutoplay()
StopAutoplayCall ==
    /\ liveAutoplay' = StopAutoplay(autoplayInterval, liveAutoplay)
    /\ autoplay' = FALSE
    /\ autoplayInterval' = 0
    /\ UNCHANGED <<autoplaySpeed, nonAutoplayVars>>

\* toggleAutoplay(): the button and the shortcut key
ToggleAutoplay ==
    IF autoplay THEN StopAutoplayCall ELSE StartAutoplay

\* setAutoplaySpeed(speed): the speed select; stopAutoplay() and
\* startAutoplay() when autoplay is on
SetAutoplaySpeed(speed) ==
    /\ autoplaySpeed' = speed
    /\ IF autoplay
       THEN LET live1 == StopAutoplay(autoplayInterval, liveAutoplay)
                id == FreshInterval(live1)
            IN IF ~HasSlides(slides)
               THEN /\ liveAutoplay' = live1
                    /\ autoplay' = FALSE
                    /\ autoplayInterval' = 0
               ELSE /\ liveAutoplay' = live1 \cup {id}
                    /\ autoplay' = TRUE
                    /\ autoplayInterval' = id
       ELSE UNCHANGED <<autoplay, autoplayInterval, liveAutoplay>>
    /\ UNCHANGED nonAutoplayVars

\* a tick of the live interval id: navigate(1), or stopAutoplay() at the
\* last slide
AutoplayTick(id) ==
    /\ id \in liveAutoplay
    /\ IF ~IsAtEnd(slides, currentIndex)
       THEN Navigate(1)
       ELSE StopAutoplayCall

\* Autoplay: the user loads a feed (and loads it again), navigates, and
\* calls the autoplay functions in any order while the intervals tick
NextAutoplay ==
    \/ \E feed \in {"c"} : LoadSubreddit(feed)
    \/ \E fr \in BagToSet(fetches) : LoadSubredditDone(fr)
    \/ \E d \in {-1, 1} : WithinBounds(d) /\ Navigate(d)
    \/ \E h \in {HealthyHealth} : StartBufferMonitoring(h)
    \/ PreloadStep
    \/ Cardinality(liveAutoplay) < MaxAutoplayTimers /\ StartAutoplay
    \/ StopAutoplayCall
    \/ ToggleAutoplay
    \/ \E speed \in AutoplaySpeeds : SetAutoplaySpeed(speed)
    \/ \E id \in liveAutoplay : WithinBounds(1) /\ AutoplayTick(id)

SpecAutoplay == Init /\ [][NextAutoplay]_vars

\* the variables of the slideshow, which the other modules leave alone
slideshowVars == <<slides, currentIndex, subreddit, after, loading, slideUrl,
                   preloadedImages, preloadedVideos, preloadedVideoUrls,
                   preloadingInProgress, preloadingPaused,
                   bufferMonitorInterval, liveIntervals, timers, resolutions,
                   fetches, nload, npage, dom, destroyed, imageRequests,
                   video, health, autoplayVars>>

\* fetchWithRetry(url, retries) up to its first await
FetchWithRetry(url, retries) ==
    /\ retry.pc = "idle"
    /\ retry' = RetryLoop([RetryIdle EXCEPT !.url = url, !.retries = retries])
    /\ UNCHANGED <<slideshowVars, autocompleteVars, proxy>>

\* `return await jsonp(url)`: the request succeeded
JsonpResolved ==
    /\ retry.pc = "jsonp"
    /\ retry' = [retry EXCEPT !.pc = "returned", !.result = JsonpData(retry.url)]
    /\ UNCHANGED <<slideshowVars, autocompleteVars, proxy>>

\* the catch block: jsonp rejected with error e; the function sleeps, or
\* goes round the loop at once after the last attempt
JsonpRejected(e) ==
    /\ retry.pc = "jsonp"
    /\ LET r == [retry EXCEPT !.lastError = e, !.errors = Append(@, e)]
       IN retry' = IF r.attempt < r.retries - 1
                   THEN [r EXCEPT !.pc = "sleep",
                                  !.waits = Append(@, RetryDelay(r.attempt))]
                   ELSE RetryLoop([r EXCEPT !.attempt = @ + 1])
    /\ UNCHANGED <<slideshowVars, autocompleteVars, proxy>>

\* `await sleep(delay)` is over: attempt++ and the head of the loop
SleepOver ==
    /\ retry.pc = "sleep"
    /\ retry' = RetryLoop([retry EXCEPT !.attempt = @ + 1])
    /\ UNCHANGED <<slideshowVars, autocompleteVars, proxy>>

\* Calls of fetchWithRetry with every retry count up to the bound, each
\* attempt succeeding or failing
NextRetry ==
    \/ \E url \in RetryUrls, retries \in 0..MaxRetries : FetchWithRetry(url, retries)
    \/ JsonpResolved
    \/ \E e \in JsonpErrors : JsonpRejected(e)
    \/ SleepOver

SpecRetry == Init /\ [][NextRetry]_vars

\* ------------------------------------------------------------------------
\* autocomplete module: events
\* ------------------------------------------------------------------------

\* the user edits the input: the input event restarts the timeout of
\* debounce
TypeInput(value) ==
    /\ value # input
    /\ input' = value
    /\ debouncePending' = TRUE
    /\ UNCHANGED <<autocomplete, searches, slideshowVars, retry, proxy>>

\* the timeout of debounce fires: handleInput up to its await
HandleInput ==
    /\ debouncePending
    /\ debouncePending' = FALSE
    /\ LET searchTerm == ExtractSearchTerm(input).searchTerm
           ac == [autocomplete EXCEPT !.currentQuery = searchTerm]
       IN IF Len(searchTerm) < MIN_CHARS
          THEN /\ autocomplete' = HideDropdown(ac)
               /\ UNCHANGED searches
          ELSE /\ autocomplete' = ShowLoading(ac)
               /\ searches' = Append(searches, [query |-> searchTerm, pc |-> "await"])
    /\ UNCHANGED <<input, slideshowVars, retry, proxy>>

\* searchSubreddits resolves for the i-th call of handleInput, which runs
\* to its end: it returns at the stale check or renders
SearchResolved(i, results) ==
    /\ i \in DOMAIN searches /\ searches[i].pc = "await"
    /\ LET searchTerm == searches[i].query
       IN /\ autocomplete' = HandleInputResume(autocomplete, input, searchTerm, results)
          /\ searches' = [searches EXCEPT ![i].pc =
                IF IsStale(ExtractSearchTerm(input).searchTerm, searchTerm)
                THEN "stale" ELSE "done"]
    /\ UNCHANGED <<input, debouncePending, slideshowVars, retry, proxy>>

\* handleKeydown: ArrowDown and ArrowUp
HandleArrow(d) ==
    /\ autocomplete.isOpen
    /\ autocomplete' = UpdateHighlight(autocomplete, autocomplete.highlightedIndex + d)
    /\ UNCHANGED <<input, debouncePending, searches, slideshowVars, retry, proxy>>

\* selectSubreddit(name): the value is set by the script, which raises no
\* input event
SelectSubreddit(name) ==
    /\ input' = ExtractSearchTerm(input).prefix \o name
    /\ autocomplete' = HideDropdown(autocomplete)
    /\ UNCHANGED <<debouncePending, searches, slideshowVars, retry, proxy>>

\* handleKeydown: Enter on a highlighted result
HandleEnter ==
    /\ autocomplete.isOpen
    /\ autocomplete.highlightedIndex >= 0
    /\ autocomplete.highlightedIndex + 1 \in DOMAIN autocomplete.results
    /\ SelectSubreddit(autocomplete.results[autocomplete.highlightedIndex + 1].name)

\* handleDropdownClick on the i-th item of the visible dropdown
HandleDropdownClick(i) ==
    /\ autocomplete.isOpen
    /\ i \in DOMAIN autocomplete.dropdown.items
    /\ SelectSubreddit(autocomplete.dropdown.items[i])

\* Escape, Tab, or a click outside: hideDropdown()
HandleHide ==
    /\ autocomplete' = HideDropdown(autocomplete)
    /\ UNCHANGED <<input, debouncePending, searches, slideshowVars, retry, proxy>>

\* handleFocus
HandleFocus ==
    /\ Len(ExtractSearchTerm(input).searchTerm) >= MIN_CHARS
    /\ Len(autocomplete.results) > 0
    /\ autocomplete' = [autocomplete EXCEPT !.isOpen = TRUE]
    /\ UNCHANGED <<input, debouncePending, searches, slideshowVars, retry, proxy>>

\* The search box: the user types, moves through the dropdown and selects
\* while searches are outstanding; a search may find nothing or fail
NextAutocomplete ==
    \/ \E value \in InputValues : TypeInput(value)
    \/ Len(searches) < MaxSearches /\ HandleInput
    \/ \E i \in DOMAIN searches :
          \E results \in {SearchResults(searches[i].query), <<>>} :
             SearchResolved(i, results)
    \/ \E d \in {-1, 1} : HandleArrow(d)
    \/ HandleEnter
    \/ \E i \in 1..2 : HandleDropdownClick(i)
    \/ HandleHide
    \/ HandleFocus

SpecAutocomplete == Init /\ [][NextAutocomplete]_vars

\* ------------------------------------------------------------------------
\* proxy worker: events
\* ------------------------------------------------------------------------

\* the fetch event: handleRequest(event.request)
HandleRequest(copy, request) ==
    /\ proxy.pc = "idle"
    /\ proxy' = HandleRequestFrom(copy, request)
    /\ UNCHANGED <<slideshowVars, retry, autocompleteVars>>

\* `await fetch(targetUrl, { headers })` resolves with the response r
UpstreamResponded(r) ==
    /\ proxy.pc = "fetching"
    /\ proxy' = [proxy EXCEPT
          !.pc = "responded",
          !.upstream = "responded",
          !.response = Response(r.status, Merge(r.headers, CorsHeaders), r.body)]
    /\ UNCHANGED <<slideshowVars, retry, autocompleteVars>>

\* fetch rejects: the catch block
UpstreamFailed ==
    /\ proxy.pc = "fetching"
    /\ proxy' = [proxy EXCEPT
          !.pc = "responded",
          !.upstream = "failed",
          !.response = Response(502, Merge(CorsHeaders, JsonHeaders), "Fetch failed")]
    /\ UNCHANGED <<slideshowVars, retry, autocompleteVars>>

\* The worker receives any request; the upstream server answers or the
\* fetch fails
NextProxy ==
    \/ \E copy \in {1, 2}, request \in Requests : HandleRequest(copy, request)
    \/ \E r \in UpstreamResponses : UpstreamResponded(r)
    \/ UpstreamFailed

SpecProxy == Init /\ [][NextProxy]_vars

\* ------------------------------------------------------------------------
\* Properties
\* ------------------------------------------------------------------------

\* a step of navigate that changes the position
NavigateStep ==
    /\ slides # <<>> /\ slides' = slides
    /\ currentIndex' # currentIndex

\* a step that starts loadSubreddit
LoadSubredditStep == nload' = nload + 1

\* the positions of the slide sequence, and the one past its end
Positions == 0..Len(slides)

\* C1: the preloaded-video cache never holds more entries than
\* MAX_CACHED_VIDEOS
C1_CacheWithinCapacity ==
    Cardinality(DOMAIN preloadedVideos) <= MAX_CACHED_VIDEOS

\* the cache is full
C1_CacheFull ==
    Cardinality(DOMAIN preloadedVideos) = MAX_CACHED_VIDEOS

\* the number of outstanding resolutions of an external id
OutstandingFor(id) ==
    BagCardinality([r \in {x \in BagToSet(resolutions) : x.id = id} |-> resolutions[r]])

\* C2: at most one network resolution is outstanding per external id
C2_OneResolutionPerId ==
    \A id \in {"x2"} : OutstandingFor(id) <= 1

\* C3: with a non-empty slide sequence, currentIndex is a valid index
C3_IndexInRange ==
    slides # <<>> => (0 <= currentIndex /\ currentIndex < Len(slides))

\* what preloadVideoElement does to the cache of this state for position idx
TryAdd(idx) ==
    PreloadVideoElement(preloadedVideos, preloadingPaused, currentIndex, idx, "u")

\* the admission control refuses position idx in this state
Refused(idx) ==
    \/ idx \in DOMAIN preloadedVideos
    \/ Cardinality(DOMAIN preloadedVideos) >= MAX_CACHED_VIDEOS
    \/ preloadingPaused

\* C4, the contract of tryAdd in every reachable state, for every position
C4_TryAddContract ==
    \A idx \in Positions :
        /\ Refused(idx) => TryAdd(idx) = preloadedVideos
        /\ ~Refused(idx) =>
              /\ DOMAIN TryAdd(idx) = DOMAIN preloadedVideos \cup {idx}
              /\ TryAdd(idx)[idx].url = "u"
              /\ \A p \in DOMAIN preloadedVideos : TryAdd(idx)[p] = preloadedVideos[p]

\* C4: tryAdd leaves the cache unchanged when the position is cached, the
\* cache is full or the pause flag is set, and adds exactly the requested
\* entry otherwise; no step taken while the pause flag is set increases the
\* number of cached handles
C4_TryAddAdmission ==
    /\ []C4_TryAddContract
    /\ [][preloadingPaused =>
            Cardinality(DOMAIN preloadedVideos') <= Cardinality(DOMAIN preloadedVideos)]_vars

\* the delayed preload step is due while the pause flag is set, and it
\* would admit a handle if the flag were clear
C4_RefusalDue ==
    /\ preloadingPaused
    /\ timers # <<>> /\ Head(timers).kind = "preload"
    /\ PreloadUpcomingVideos(Head(timers).slides, Head(timers).idx, preloadedVideos,
                             preloadedVideoUrls, slideUrl, FALSE, currentIndex)
         # preloadedVideos

\* the pause flag a tick with sample h leaves in this state
FlagAfterTick(h) == CheckBufferFlag(HasActiveVideo(dom), h, preloadingPaused)

\* C5, for every sample a tick can take in this state
C5_TickHysteresis ==
    \A h \in HealthSamples :
        /\ (preloadingPaused /\ ~FlagAfterTick(h)) => h > HEALTHY_BUFFER_SECONDS
        /\ (~preloadingPaused /\ FlagAfterTick(h)) => h < MIN_BUFFER_SECONDS
        /\ (MIN_BUFFER_SECONDS <= h /\ h <= HEALTHY_BUFFER_SECONDS) =>
              FlagAfterTick(h) = preloadingPaused

\* C5: a tick clears the pause flag only for a sample above the high-water
\* mark and sets it only for a sample below the low-water mark, a sample
\* between the marks never changes it; the flag changes only in a navigate
\* or in a tick that finds an active video
C5_Hysteresis ==
    /\ []C5_TickHysteresis
    /\ [][preloadingPaused' # preloadingPaused =>
            \/ NavigateStep
            \/ HasActiveVideo(dom) /\ liveIntervals' # {}]_vars

\* the monitor runs on an active video and preloading is paused
C5_Starved ==
    preloadingPaused /\ HasActiveVideo(dom) /\ liveIntervals # {}

\* C6: after a navigate to position P the cache holds no handle below
\* P - CLEANUP_THRESHOLD, and every handle that was there is destroyed
C6_EvictionAfterNavigate ==
    [][NavigateStep =>
        /\ \A p \in DOMAIN preloadedVideos' : p >= currentIndex' - CLEANUP_THRESHOLD
        /\ \A p \in DOMAIN preloadedVideos :
              p < currentIndex' - CLEANUP_THRESHOLD =>
                 [pos |-> p, url |-> preloadedVideos[p].url] \in destroyed']_vars

\* a navigate has destroyed a handle
C6_Evicted == destroyed # {}

\* the url the slide object plays: its native url, or the url its external
\* id resolves to
ExpectedUrl(o) ==
    IF ExternalId(o) # NULL THEN ResolvedUrl(ExternalId(o)) ELSE Template(o).url

\* C7: a handle the renderer takes from the cache for position P has the url
\* of the slide at P in the current slide sequence
C7_TakenHandleMatchesSlide ==
    [][\A role \in {"prev", "active", "next"} :
          (dom'[role] # dom[role] /\ dom'[role].preloadedUrl # NULL) =>
             /\ dom'[role].idx < Len(slides')
             /\ dom'[role].preloadedUrl = ExpectedUrl(At(slides', dom'[role].idx))]_vars

\* C8: loading a new feed leaves the video cache, the url cache and the
\* image set empty and the pause flag false
C8_ResetClearsCaches ==
    [][LoadSubredditStep =>
        /\ preloadedVideos' = EmptyMap
        /\ preloadedVideoUrls' = EmptyMap
        /\ preloadedImages' = {}
        /\ ~preloadingPaused']_vars

\* C9: while the active slide is an image no buffer-monitor interval is live
C9_NoMonitorOnImage ==
    (InBounds(currentIndex, slides) /\ SlideType(At(slides, currentIndex)) = "image")
        => liveIntervals = {}

ExternalIds == {"x2"}

\* the positions of the slides of id that still need a resolution
Unresolved(id) ==
    {p \in 0..(Len(slides) - 1) :
        ExternalId(At(slides, p)) = id /\ NeedsResolve(At(slides, p), slideUrl)}

Completes(r) ==
    /\ r \in BagToSet(resolutions)
    /\ resolutions' = resolutions (-) SetToBag({r})

\* the positions updateSlides renders and the batch resolver visits when
\* navigate moves to position cur
Visited(cur) == (cur - 1)..(cur + URL_PRELOAD_COUNT)

\* C12: a completing resolution leaves the id out of the in-flight set,
\* creates no cache entry other than the url the provider returned and marks
\* the slide resolved only with that url; a navigate that renders or
\* pre-resolves a slide whose id is neither cached nor in flight starts a
\* resolution of it
C12_FailureNotCached ==
    [][/\ \A r \in BagToSet(resolutions) : Completes(r) =>
             /\ r.id \notin preloadingInProgress'
             /\ \A id \in DOMAIN preloadedVideoUrls' :
                   preloadedVideoUrls'[id] = ResolvedUrl(id)
             /\ \A o \in DOMAIN slideUrl' :
                   /\ ExternalId(o) \in DOMAIN preloadedVideoUrls'
                   /\ slideUrl'[o] = preloadedVideoUrls'[ExternalId(o)]
             /\ r.id \notin DOMAIN preloadedVideoUrls =>
                   \/ r.id \notin DOMAIN preloadedVideoUrls' /\ slideUrl' = slideUrl
                   \/ preloadedVideoUrls' =
                         MapSet(preloadedVideoUrls, r.id, ResolvedUrl(r.id))
       /\ \A id \in ExternalIds :
             (/\ NavigateStep
              /\ id \notin DOMAIN preloadedVideoUrls
              /\ id \notin preloadingInProgress
              /\ Unresolved(id) \cap Visited(currentIndex') # {})
                => /\ id \in preloadingInProgress'
                   /\ OutstandingFor(id)' = OutstandingFor(id) + 1]_vars

\* the resolution of a rendered slide has failed: the slide is on screen
\* and unresolved, its id is neither cached nor in flight, nothing is
\* outstanding
C12_FailedOnScreen ==
    \E id \in ExternalIds :
        /\ id \notin DOMAIN preloadedVideoUrls
        /\ id \notin preloadingInProgress
        /\ OutstandingFor(id) = 0
        /\ \E role \in {"prev", "active", "next"} :
              dom[role].idx \in Unresolved(id)

\* C13: every id in the in-flight set is eventually removed from it
C13_InFlightEventuallyRemoved ==
    \A id \in ExternalIds :
        (id \in preloadingInProgress) ~> (id \notin preloadingInProgress)

\* an id is in flight
C13_InFlight == preloadingInProgress # {}

\* the renderer has taken the handle of position p in this step
Taken(p) ==
    /\ p \notin DOMAIN preloadedVideos'
    /\ \E role \in {"prev", "active", "next"} :
          dom'[role] = Rendered(p, "video", preloadedVideos[p].url)

\* cleanupOldPreloads has destroyed the handle of position p in this step
Evicted(p) ==
    /\ NavigateStep
    /\ p < currentIndex' - CLEANUP_THRESHOLD
    /\ p \notin DOMAIN preloadedVideos'
    /\ [pos |-> p, url |-> preloadedVideos[p].url] \in destroyed'

\* the error listener of the handle of position p has run in this step
RemovedOnError(p) ==
    /\ preloadedVideos' = PreloadErrorListener(preloadedVideos, p)
    /\ destroyed' = destroyed /\ timers' = timers
    /\ currentIndex' = currentIndex /\ slides' = slides

\* C14: the cache maps a position to one handle, and a cached handle stays
\* the handle of its position (a later tryAdd for the position does not
\* replace it) until it is taken, evicted or removed on error
C14_OneHandlePerPosition ==
    [][\A p \in DOMAIN preloadedVideos :
          \/ /\ p \in DOMAIN preloadedVideos'
             /\ preloadedVideos'[p].url = preloadedVideos[p].url
          \/ Taken(p)
          \/ Evicted(p)
          \/ RemovedOnError(p)]_vars

\* the delayed preload step is due for a position that holds a handle of
\* another url
C14_OccupiedPositionDue ==
    /\ timers # <<>> /\ Head(timers).kind = "preload"
    /\ ~preloadingPaused
    /\ \E i \in 1..VIDEO_PRELOAD_COUNT :
          LET idx == Head(timers).idx + i IN
          /\ idx < Len(Head(timers).slides)
          /\ idx \in DOMAIN preloadedVideos
          /\ SlideType(At(Head(timers).slides, idx)) = "video"
          /\ Template(At(Head(timers).slides, idx)).url # preloadedVideos[idx].url

\* C15, the contract of take in every reachable state, for every position
C15_TakeContract ==
    \A p \in Positions :
        LET t == TakePreloaded(preloadedVideos, p) IN
        /\ p \notin DOMAIN t
        /\ TakePreloaded(t, p) = t
        /\ DOMAIN t = DOMAIN preloadedVideos \ {p}
        /\ \A q \in DOMAIN t : t[q] = preloadedVideos[q]
        /\ p \notin DOMAIN preloadedVideos => t = preloadedVideos

\* C15: take(P) removes the entry of P and nothing else, a repeated take
\* finds nothing, a take without entry changes nothing; the renderer gets
\* the handle that was cached at P, and after the render the cache has no
\* entry at P
C15_TakeSemantics ==
    /\ []C15_TakeContract
    /\ [][NavigateStep =>
            \A role \in {"prev", "active", "next"} :
               (dom'[role].idx >= 0 /\ dom'[role].type = "video") =>
                  IF dom'[role].idx \in DOMAIN preloadedVideos
                  THEN /\ dom'[role].preloadedUrl =
                             preloadedVideos[dom'[role].idx].url
                       /\ dom'[role].idx \notin DOMAIN preloadedVideos'
                  ELSE dom'[role].preloadedUrl = NULL]_vars

\* a rendered slide shows a handle that was taken from the cache
C15_HandleTaken ==
    \E role \in {"prev", "active", "next"} : dom[role].preloadedUrl # NULL

\* C16: while the pause flag is set no handle in the cache is playing; in
\* particular the step that sets the flag pauses every playing handle
C16_PausedMeansNonePlaying ==
    preloadingPaused => \A p \in DOMAIN preloadedVideos : ~preloadedVideos[p].playing

\* the monitor runs on an active video, preloading is not paused and a
\* cached handle is playing
C16_PlayingBeforeStarved ==
    /\ ~preloadingPaused /\ HasActiveVideo(dom) /\ liveIntervals # {}
    /\ \E p \in DOMAIN preloadedVideos : preloadedVideos[p].playing

\* a step in which the monitor moves from Starved to Healthy
ResumeStep ==
    preloadingPaused /\ ~preloadingPaused' /\ currentIndex' = currentIndex

\* C17: the step from Starved to Healthy leaves the cached positions and
\* urls as they are and plays no handle other than the one at
\* currentIndex + 1, which it plays if it is cached
C17_ResumeNudgesNextOnly ==
    [][ResumeStep =>
        /\ DOMAIN preloadedVideos' = DOMAIN preloadedVideos
        /\ \A p \in DOMAIN preloadedVideos :
              /\ preloadedVideos'[p].url = preloadedVideos[p].url
              /\ p # currentIndex + 1 => preloadedVideos'[p] = preloadedVideos[p]
              /\ p = currentIndex + 1 => preloadedVideos'[p].playing]_vars

\* Starved with the monitor running, the next position and another
\* position cached
C17_StarvedWithHandles ==
    /\ preloadingPaused /\ HasActiveVideo(dom) /\ liveIntervals # {}
    /\ currentIndex + 1 \in DOMAIN preloadedVideos
    /\ DOMAIN preloadedVideos # {currentIndex + 1}

\* C18, for the eviction of every position of the current sequence
C18_CleanupKeeps ==
    \A c \in Positions :
        \A p \in DOMAIN preloadedVideos :
            p >= c - CLEANUP_THRESHOLD =>
               /\ p \in DOMAIN CleanupOldPreloads(preloadedVideos, c)
               /\ CleanupOldPreloads(preloadedVideos, c)[p] = preloadedVideos[p]

\* C18: eviction never removes a handle at a position greater than or equal
\* to currentIndex - CLEANUP_THRESHOLD: such a handle leaves the cache in a
\* navigate only if the renderer takes it, and every handle a step destroys
\* was below the threshold
C18_EvictionKeepsNearAndAhead ==
    /\ []C18_CleanupKeeps
    /\ [][/\ NavigateStep =>
               \A p \in DOMAIN preloadedVideos :
                  (p >= currentIndex' - CLEANUP_THRESHOLD
                      /\ p \notin DOMAIN preloadedVideos') => Taken(p)
          /\ \A h \in destroyed' \ destroyed :
                h.pos < currentIndex' - CLEANUP_THRESHOLD]_vars

\* a handle is cached more than CLEANUP_THRESHOLD ahead of the position
\* (the user has navigated backwards)
C18_HandleFarAhead ==
    \E p \in DOMAIN preloadedVideos : p > currentIndex + CLEANUP_THRESHOLD

\* C19: at most one buffer-monitor interval is live
C19_OneInterval ==
    Cardinality(liveIntervals) <= 1

\* a delayed monitor start is due while an interval is live
C19_StartDueWhileLive ==
    /\ liveIntervals # {}
    /\ timers # <<>> /\ Head(timers).kind = "monitor"

\* C20, the error listener of every cached handle in every reachable state
C20_ErrorContract ==
    \A pos \in DOMAIN preloadedVideos :
        LET pv1 == PreloadErrorListener(preloadedVideos, pos)
            st == [pv |-> pv1, inprog |-> preloadingInProgress,
                   res |-> resolutions, su |-> slideUrl, dom |-> EmptyDom]
        IN /\ DOMAIN pv1 = DOMAIN preloadedVideos \ {pos}
           /\ \A q \in DOMAIN pv1 : pv1[q] = preloadedVideos[q]
           /\ (InBounds(pos, slides) /\ SlideType(At(slides, pos)) = "video") =>
                 CreateSlideElement(st, slides, "active", pos,
                                    preloadedVideoUrls).dom["active"]
                    = Rendered(pos, "video", NULL)

\* C20: the error of a cached handle removes its entry and no other, a
\* render of the position then creates a fresh element, and the step that
\* removes the entry changes neither the position nor the pause flag
C20_HandleError ==
    /\ []C20_ErrorContract
    /\ [][\A p \in DOMAIN preloadedVideos :
             (p \notin DOMAIN preloadedVideos' /\ ~Taken(p) /\ ~Evicted(p)) =>
                /\ RemovedOnError(p)
                /\ currentIndex' = currentIndex
                /\ preloadingPaused' = preloadingPaused
                /\ slides' = slides]_vars

\* the handle of the next position is cached
C20_NextCached ==
    /\ currentIndex + 1 \in DOMAIN preloadedVideos
    /\ InBounds(currentIndex + 1, slides)
    /\ SlideType(At(slides, currentIndex + 1)) = "video"

\* navigate(d) has a slide to go to
HasTarget(d) ==
    0 <= currentIndex + d /\ currentIndex + d < Len(slides)

C22_NoOpAtTheEnds ==
    \A d \in {-1, 1} :
        (currentIndex + d < 0 \/ currentIndex + d >= Len(slides)) =>
            /\ ENABLED Navigate(d)
            /\ ~ENABLED (Navigate(d) /\ vars' # vars)

\* the last of several slides is the current one, with handles cached
C22_AtLastSlide ==
    /\ Len(slides) > 1
    /\ currentIndex = Len(slides) - 1
    /\ preloadedVideos # EmptyMap

\* the window of the delayed preload step t: the positions after the
\* captured index, VIDEO_PRELOAD_COUNT of them at most, within the
\* captured slides
PreloadWindow(t) ==
    {p \in (t.idx + 1)..(t.idx + VIDEO_PRELOAD_COUNT) : p < Len(t.slides)}

\* the url the delayed preload step knows for slide o: its own url, or
\* the one that the url cache holds for its external id; NULL when it
\* knows none
KnownVideoUrl(o) ==
    IF ExternalId(o) = NULL THEN Template(o).url
    ELSE IF o \in DOMAIN slideUrl THEN slideUrl[o]
    ELSE IF ExternalId(o) \in DOMAIN preloadedVideoUrls
         THEN preloadedVideoUrls[ExternalId(o)]
    ELSE NULL

LoadMoreStep ==
    /\ npage' = npage + 1
    /\ \E fr \in BagToSet(fetches) :
          fr.kind = "more" /\ fetches' = fetches (-) SetToBag({fr})

\* s is a prefix of t
IsPrefix(s, t) == Len(s) <= Len(t) /\ SubSeq(t, 1, Len(s)) = s

\* the posts that the slides sl show, whatever fetch delivered them
Posts(sl) == [i \in 1..Len(sl) |-> Template(sl[i])]

\* C24: when loadMorePosts completes, the slide sequence of just before
\* is a prefix of the new one, so no slide changes its index
C24_LoadMoreAppendOnly ==
    [][LoadMoreStep => IsPrefix(Posts(slides), Posts(slides'))]_vars

\* C25: at most one feed fetch (loadSubreddit or loadMorePosts) is
\* outstanding at any time, and the loading flag is true exactly while one
\* is outstanding
C25_OneFetchOutstanding ==
    /\ BagCardinality(fetches) <= 1
    /\ loading <=> fetches # EmptyBag

\* the cache starts playback of the handle of position p in this step
StartsPlaying(p) ==
    /\ p \in DOMAIN preloadedVideos' /\ preloadedVideos'[p].playing
    /\ p \in DOMAIN preloadedVideos => ~preloadedVideos[p].playing

\* C26: the cache starts playback of a handle only at the position after
\* the current one, and only when it admits the handle or when the pause
\* ends; a handle admitted at another position is not played at admission
\* and stays unplayed in every step that is not the end of a pause
C26_OnlyNextIsNudged ==
    [][\A p \in Positions :
          StartsPlaying(p) =>
             /\ p = currentIndex + 1
             /\ currentIndex' = currentIndex
             /\ p \notin DOMAIN preloadedVideos \/ ResumeStep]_vars

\* the handle after the current position is being nudged, and a handle of
\* another position is held unplayed
C26_NextNudgedOthersNot ==
    /\ (currentIndex + 1) \in DOMAIN preloadedVideos
    /\ preloadedVideos[currentIndex + 1].playing
    /\ \E q \in DOMAIN preloadedVideos :
          q # currentIndex + 1 /\ ~preloadedVideos[q].playing

\* the buffered ranges of v that hold its playback position
Containing(v) ==
    {i \in 1..Len(v.buffered) :
        v.buffered[i].start <= v.currentTime /\ v.currentTime <= v.buffered[i].end}

\* C27: getBufferHealth returns, for the first buffered range that holds
\* the playback position, its end minus the position; it returns 0 when no
\* range holds the position, when nothing is buffered and when there is no
\* video; it never returns a negative number
C27_BufferHealth ==
    health # -1 =>
        /\ health >= 0
        /\ IF video.present /\ Containing(video) # {}
           THEN \E i \in Containing(video) :
                   /\ \A j \in Containing(video) : i <= j
                   /\ health = video.buffered[i].end - video.currentTime
           ELSE health = 0

\* getBufferHealth has returned a positive number for a position that is
\* in the second buffered range
C27_SecondRangeSampled ==
    /\ health > 0
    /\ video.present
    /\ Containing(video) = {2}

\* C28: when the cache is paused on an active video, and the interval of
\* the monitor keeps firing with the video buffered above the high-water
\* mark, the pause eventually ends (or the active slide is no longer that
\* video)
C28_PauseEventuallyEnds ==
    (preloadingPaused /\ HasActiveVideo(dom))
        ~> (~preloadingPaused \/ ~HasActiveVideo(dom))

\* the cache is paused on an active video, the interval of the monitor is
\* live, and no timeout is pending
C28_PausedOnActiveVideo ==
    /\ preloadingPaused
    /\ HasActiveVideo(dom)
    /\ bufferMonitorInterval \in liveIntervals
    /\ timers = <<>>

\* C29: since the last loadSubreddit no image url was requested twice and
\* the requested urls are the ones recorded as fetched; a step other than
\* loadSubreddit removes no url from that set, and a navigate records the
\* image urls of the forward window whatever the pause flag and the video
\* cache are
C29_ImagesRequestedOnce ==
    /\ [](/\ \A u \in BagToSet(imageRequests) : CopiesIn(u, imageRequests) = 1
          /\ BagToSet(imageRequests) = preloadedImages)
    /\ [][/\ ~LoadSubredditStep => preloadedImages \subseteq preloadedImages'
          /\ NavigateStep =>
                preloadedImages' =
                   preloadedImages \cup UpcomingImages(slides, currentIndex')]_vars

\* navigate has a target whose forward window holds an image that was
\* requested before and one that was not, while the cache is paused
C29_WindowPartlyFetched ==
    /\ preloadingPaused
    /\ \E d \in {-1, 1} :
          /\ 0 <= currentIndex + d /\ currentIndex + d < Len(slides)
          /\ UpcomingImages(slides, currentIndex + d) \cap preloadedImages # {}
          /\ UpcomingImages(slides, currentIndex + d) \ preloadedImages # {}

\* the error listener of an element that is on screen has run in this step
ErrorOnScreen ==
    \E role \in {"prev", "active", "next"} :
        dom[role].type = "video" /\ dom'[role].type = "removed"

\* C30: the error listener of a handle that was taken by the renderer
\* deletes no handle that was cached at its position later, and removes no
\* element that is on screen
C30_ErrorRemovesOwnEntryOnly ==
    [][/\ ErrorOnScreen => preloadedVideos' = preloadedVideos
       /\ ~ErrorOnScreen]_vars

\* C31: in every reachable state every cached handle is at a position of
\* at least currentIndex - CLEANUP_THRESHOLD
C31_NoHandleBehindThreshold ==
    \A p \in DOMAIN preloadedVideos : p >= currentIndex - CLEANUP_THRESHOLD

\* C32: whenever the pause flag is set, the active slide is a video and the
\* interval of the buffer monitor is live
C32_PauseHasLiveMonitor ==
    preloadingPaused =>
        /\ HasActiveVideo(dom)
        /\ bufferMonitorInterval \in liveIntervals

\* this step is the completion of a loadMorePosts that was started for
\* another feed than the one the store holds now
StaleLoadMoreStep ==
    /\ npage' = npage + 1
    /\ \E fr \in BagToSet(fetches) :
          /\ fr.kind = "more" /\ fr.feed # subreddit
          /\ fetches' = fetches (-) SetToBag({fr})

\* C33: the completion of a loadMorePosts of a previous feed leaves the
\* slides, the pagination token and the loading flag of the new feed alone
C33_StaleLoadMoreDiscarded ==
    [][StaleLoadMoreStep => UNCHANGED <<slides, after, loading>>]_vars

\* the delays of an exponential backoff with n waits
Backoff(n) == [i \in 1..n |-> RETRY_BASE_DELAY * 2^(i - 1)]

\* C34: fetchWithRetry makes at most `retries` attempts; it returns the
\* data of the first success without a further attempt; between attempts
\* it waits RETRY_BASE_DELAY * 2^attempt and it does not wait after the
\* last one; after `retries` failures it throws the last error
C34_FetchWithRetry ==
    /\ retry.attempts <= retry.retries
    /\ retry.waits = Backoff(Len(retry.waits))
    /\ retry.pc = "jsonp" =>
          /\ Len(retry.errors) = retry.attempts - 1
          /\ Len(retry.waits) = retry.attempts - 1
    /\ retry.pc = "sleep" =>
          /\ retry.attempts < retry.retries
          /\ Len(retry.waits) = retry.attempts
    /\ retry.pc = "returned" =>
          /\ retry.result = JsonpData(retry.url)
          /\ retry.attempts = Len(retry.errors) + 1
          /\ Len(retry.waits) = Len(retry.errors)
    /\ retry.pc = "thrown" =>
          /\ retry.attempts = retry.retries
          /\ Len(retry.errors) = retry.retries
          /\ Len(retry.waits) = IF retry.retries > 0 THEN retry.retries - 1 ELSE 0
          /\ retry.retries > 0 => retry.result = retry.errors[retry.retries]

\* the default three attempts all failed: two waits, then the throw
C34_AllAttemptsFailed ==
    /\ retry.pc = "thrown"
    /\ retry.retries = RETRY_ATTEMPTS
    /\ retry.waits = <<1000, 2000>>

\* C36: at most one autoplay interval is live, and one is live exactly
\* when the autoplay flag is set, its id being the one in autoplayInterval
C36_OneAutoplayInterval ==
    /\ Cardinality(liveAutoplay) <= 1
    /\ autoplay <=> liveAutoplay # {}
    /\ autoplay => liveAutoplay = {autoplayInterval}
    /\ ~autoplay => autoplayInterval = 0

\* C35: a tick of autoplay moves the position forward by exactly one when
\* the current slide is not the last; at the last slide it leaves the
\* position alone, turns autoplay off and clears the interval; when
\* autoplay is off no tick changes the position
C35_AutoplayTick ==
    [][(\E id \in liveAutoplay : AutoplayTick(id)) =>
          /\ IF currentIndex < Len(slides) - 1
             THEN currentIndex' = currentIndex + 1
             ELSE /\ currentIndex' = currentIndex
                  /\ ~autoplay'
                  /\ autoplayInterval' = 0
                  /\ autoplayInterval \notin liveAutoplay'
          /\ ~autoplay => currentIndex' = currentIndex]_vars

\* the search term of the input
Term(value) == ExtractSearchTerm(value).searchTerm

\* the dropdown is open and lists the results of a query other than the
\* search term of value
ListsOther(ac, value) ==
    ac.isOpen /\ ac.dropdown.kind = "items" /\ ac.dropdown.query # Term(value)

\* C37 as stated: the dropdown never lists the results of a query other
\* than the current search term of the input
C37_ListsCurrentTermOnly == ~ListsOther(autocomplete, input)

\* this step is the resumption of a handleInput call whose query is no
\* longer the search term of the input
StaleSearchResolved ==
    \E i \in DOMAIN searches :
        /\ searches[i].pc = "await" /\ searches'[i].pc # "await"
        /\ searches[i].query # Term(input)

\* C37: a search that resolves for a query other than the search term of
\* the input leaves the dropdown, the results and the highlight alone; the
\* dropdown lists the results of another query than the input's search
\* term only while the handler of a later edit is still pending
C37_StaleResultsDiscarded ==
    [][/\ StaleSearchResolved => autocomplete' = autocomplete
       /\ ListsOther(autocomplete', input') => debouncePending']_vars

\* a stale search was discarded and the dropdown lists the results of the
\* search for the input's term
C37_StaleDiscardedCurrentListed ==
    /\ \E i \in DOMAIN searches : searches[i].pc = "stale"
    /\ autocomplete.isOpen /\ autocomplete.dropdown.kind = "items"
    /\ autocomplete.dropdown.query = Term(input)
    /\ ~debouncePending

\* the response carries the three CORS headers of the worker
CarriesCors(r) ==
    \A h \in DOMAIN CorsHeaders :
        h \in DOMAIN r.headers /\ r.headers[h] = CorsHeaders[h]

\* C38: the worker fetches upstream only from an allow-listed hostname; a
\* missing or unparsable url parameter is answered with 400, a host
\* outside the allow-list with 403, a failed upstream fetch with 502;
\* OPTIONS is answered without an upstream fetch; every response carries
\* the CORS headers
C38_ProxyAllowList ==
    /\ \A i \in DOMAIN proxy.fetched :
          Hostname(proxy.fetched[i].url) \in
             {"old.reddit.com", "www.reddit.com", "api.redgifs.com",
              "media.redgifs.com"}
    /\ proxy.pc # "idle" /\ proxy.request.method = "OPTIONS" =>
          proxy.pc = "responded" /\ proxy.fetched = <<>>
    /\ proxy.pc = "responded" =>
          /\ CarriesCors(proxy.response)
          /\ proxy.request.method # "OPTIONS" =>
                /\ proxy.request.url \in {NULL, ""} => proxy.response.status = 400
                /\ Hostname(proxy.request.url) = "throws" =>
                      proxy.response.status = 400
                /\ /\ proxy.request.url \notin {NULL, ""}
                   /\ Hostname(proxy.request.url) \notin
                         Allowed(proxy.copy) \cup {"throws"}
                   => proxy.response.status = 403
          /\ proxy.upstream = "failed" => proxy.response.status = 502

\* the fetch of an allow-listed target failed and was answered with 502
C38_UpstreamFailureAnswered ==
    /\ proxy.pc = "responded"
    /\ proxy.upstream = "failed"
    /\ Len(proxy.fetched) = 1
    /\ proxy.response.status = 502
====
